---- MODULE Spec2Model ----
(***************************************************************************)
(* Model of parquet::Decoder<DType> (cpp/src/parquet/encodings/decoder.h). *)
(*                                                                         *)
(* One decoder instance and its single caller.  The abstract class itself  *)
(* supplies the constructor, the throwing default Decode, the default      *)
(* DecodeSpaced and the two accessors.  SetData is pure virtual and a      *)
(* useful Decode is an override, so those two are modelled from the        *)
(* documented contract as a plain decoder that hands out the values of the *)
(* loaded page in order.                                                   *)
(*                                                                         *)
(* Buffers are functions on 0..n-1 so that indices are the source's.       *)
(***************************************************************************)
EXTENDS Integers, Sequences, FiniteSets

\* ---- bounds -------------------------------------------------------------
MaxSlots == 3       \* largest num_values handed to DecodeSpaced / Decode
MaxPage == 3        \* largest value count of a page
MaxOffset == 1      \* largest valid_bits_offset

Encodings == {"PLAIN", "RLE"}
\* the one-byte bitmaps that cover n slots from bit off on (unused bits clear)
Bitmaps(n, off) == {<<b>> : b \in 0..(2^(off + n) - 1)}

\* Decode and DecodeSpaced copy values of type T and never look at them, so
\* values are kept symbolic: every value of a page and every memory location
\* the decoder did not write holds a value of its own.  Any other input is
\* an image of this one under a renaming of values.
\* Page(n) is a page of n values, CallerContent(s) what the caller left in
\* slot s of its buffer and Outside(idx) what lies at buffer[idx] for an idx
\* before or past the buffer.
Page(n) == [j \in 1..n |-> j]
CallerContent(s) == -(s + 1)
Outside(idx) == IF idx < 0 THEN MaxPage - idx ELSE MaxPage + MaxSlots + 1 + idx
Buffer(n) == [s \in 0..(n - 1) |-> CallerContent(s)]
EmptyBuffer == Buffer(0)

Min(a, b) == IF a < b THEN a ELSE b

VARIABLES
  overrides,          \* TRUE iff the instance's class overrides Decode
  encoding_,          \* Decoder::encoding_
  num_values_,        \* Decoder::num_values_
  data_,              \* the not yet decoded values of the loaded page (kept
                      \* by a class that overrides Decode)
  pc,                 \* "idle", "loop" (inside DecodeSpaced's for loop),
                      \* "done" (a call has ended and the caller looks at it)
                      \* or "crashed" (the process has faulted)
  buffer,             \* the caller's output buffer of the current call
  num_values, null_count, valid_bits, valid_bits_offset,  \* DecodeSpaced's parameters
  values_to_read, values_read, values_to_move, i,         \* DecodeSpaced's locals
  result,             \* what the last call did: [op, status, ret, arg]
  loaded,             \* the count given to the last SetData
  pre_buffer,         \* buffer as the caller passed it to the current call
  pre_num_values,     \* num_values_ when the current call started
  dense,              \* buffer as the dense Decode of the current call left it
  decode_calls,       \* [max_values, thrown, ret] of every Decode the current call made
  moves               \* <<source, destination>> of every loop assignment

decoder == <<overrides, encoding_, num_values_, data_>>
frame == <<num_values, null_count, valid_bits, valid_bits_offset,
           values_to_read, values_read, values_to_move, i>>
vars == <<overrides, encoding_, num_values_, data_, pc, buffer,
          num_values, null_count, valid_bits, valid_bits_offset,
          values_to_read, values_read, values_to_move, i,
          result, loaded, pre_buffer, pre_num_values, dense, decode_calls, moves>>

\* ---- accessors ----------------------------------------------------------
values_left == num_values_
encoding == encoding_

\* ---- arrow::BitUtil::GetBit: bit i of a little-endian packed byte array -
GetBit(bits, idx) == (bits[(idx \div 8) + 1] \div (2^(idx % 8))) % 2 = 1

\* ---- construction -------------------------------------------------------
Decoder_BadInit(enc) == [encoding_ |-> enc, num_values_ |-> -1]
Decoder(enc) == [encoding_ |-> enc, num_values_ |-> 0]

\* ---- dense decode -------------------------------------------------------
\* A Decode outcome: thrown is "none" or the exception, ret the returned
\* count, and the buffer and decoder fields as the call leaves them.
BaseDecode_ReturnsZero(buf, max_values, nv, d) ==
  [thrown |-> "none", ret |-> 0, buffer |-> buf, num_values_ |-> nv, data_ |-> d]
BaseDecode(buf, max_values, nv, d) ==
  [thrown |-> "unsupported", ret |-> 0, buffer |-> buf, num_values_ |-> nv, data_ |-> d]

PlainDecode_NoDecrement(buf, max_values, nv, d) ==
  LET n == Min(max_values, nv) IN
  [thrown |-> "none", ret |-> n,
   buffer |-> [j \in DOMAIN buf |-> IF j < n THEN d[j + 1] ELSE buf[j]],
   num_values_ |-> nv,
   data_ |-> d]
PlainDecode(buf, max_values, nv, d) ==
  LET n == Min(max_values, nv) IN
  [thrown |-> "none", ret |-> n,
   buffer |-> [j \in DOMAIN buf |-> IF j < n THEN d[j + 1] ELSE buf[j]],
   num_values_ |-> nv - n,
   data_ |-> SubSeq(d, n + 1, Len(d))]

\* virtual dispatch of Decode
Decode(buf, max_values) ==
  IF overrides THEN PlainDecode(buf, max_values, num_values_, data_)
               ELSE BaseDecode(buf, max_values, num_values_, data_)

\* ---- pieces of DecodeSpaced ---------------------------------------------
ValuesToRead_All(n, nc) == n
ValuesToRead(n, nc) == n - nc

\* where control goes after the dense Decode returned ("decoded") and after
\* the for loop ended ("scanned")
Control_NoCheck(at, vread, vtoread) ==
  IF at = "decoded" THEN "loop" ELSE "return"
Control_CheckAfterLoop(at, vread, vtoread) ==
  IF at = "decoded" THEN "loop"
  ELSE IF vread # vtoread THEN "throw" ELSE "return"
Control(at, vread, vtoread) ==
  IF at = "decoded" THEN (IF vread # vtoread THEN "throw" ELSE "loop")
  ELSE "return"

\* for (int i = num_values - 1; ...): the first slot the loop looks at
LoopStart_SkipsLast(n) == n - 2
LoopStart(n) == n - 1

\* the loop's test of slot idx
IsValid_NoOffset(bits, off, idx) == GetBit(bits, idx)
IsValid(bits, off, idx) == GetBit(bits, off + idx)

\* buffer[--values_to_move]: the index read
SourceIndex_PostDecrement(vtm) == vtm
SourceIndex(vtm) == vtm - 1

\* The value a read of buf[idx] yields when it yields one; an index outside
\* the buffer is an out-of-bounds read (undefined behaviour), which either
\* yields what lies there or faults (SpacedFault).
ReadSlot(buf, idx) == IF idx \in DOMAIN buf THEN buf[idx] ELSE Outside(idx)

\* ---- initial state ------------------------------------------------------
Init ==
  /\ overrides \in BOOLEAN
  /\ \E enc \in Encodings :
       /\ encoding_ = Decoder(enc).encoding_
       /\ num_values_ = Decoder(enc).num_values_
  /\ data_ = <<>>
  /\ pc = "done"
  /\ buffer = EmptyBuffer
  /\ num_values = 0 /\ null_count = 0 /\ valid_bits = <<0>> /\ valid_bits_offset = 0
  /\ values_to_read = 0 /\ values_read = 0 /\ values_to_move = 0 /\ i = 0
  /\ result = [op |-> "ctor", status |-> "ok", ret |-> 0, arg |-> 0]
  /\ loaded = 0
  /\ pre_buffer = EmptyBuffer
  /\ pre_num_values = 0
  /\ dense = EmptyBuffer
  /\ decode_calls = <<>>
  /\ moves = <<>>

ResetFrame ==
  /\ num_values' = 0 /\ null_count' = 0 /\ valid_bits' = <<0>> /\ valid_bits_offset' = 0
  /\ values_to_read' = 0 /\ values_read' = 0 /\ values_to_move' = 0 /\ i' = 0

\* ---- SetData(num_values, data, len) of the concrete decoder -------------
SetData(count, page) ==
  /\ pc = "idle"
  /\ num_values_' = count
  /\ data_' = IF overrides THEN page ELSE <<>>
  /\ loaded' = count
  /\ result' = [op |-> "SetData", status |-> "ok", ret |-> 0, arg |-> count]
  /\ pre_num_values' = num_values_
  /\ buffer' = EmptyBuffer /\ pre_buffer' = EmptyBuffer /\ dense' = EmptyBuffer
  /\ decode_calls' = <<>> /\ moves' = <<>>
  /\ ResetFrame
  /\ pc' = "done"
  /\ UNCHANGED <<overrides, encoding_>>

\* ---- the caller calls Decode(buffer, max_values) ------------------------
DecodeCall(buf, max_values) ==
  /\ pc = "idle"
  /\ LET r == Decode(buf, max_values) IN
       /\ buffer' = r.buffer
       /\ num_values_' = r.num_values_
       /\ data_' = r.data_
       /\ dense' = r.buffer
       /\ result' = [op |-> "Decode",
                     status |-> IF r.thrown = "none" THEN "ok" ELSE r.thrown,
                     ret |-> r.ret, arg |-> max_values]
  /\ pre_buffer' = buf
  /\ pre_num_values' = num_values_
  /\ decode_calls' = <<[max_values |-> max_values, thrown |-> Decode(buf, max_values).thrown,
                         ret |-> Decode(buf, max_values).ret]>>
  /\ moves' = <<>>
  /\ ResetFrame
  /\ pc' = "done"
  /\ UNCHANGED <<overrides, encoding_, loaded>>

\* ---- DecodeSpaced: entry, the dense Decode and the count check ----------
DecodeSpaced(buf, n, nc, bits, off) ==
  /\ pc = "idle"
  /\ LET vtr == ValuesToRead(n, nc)
         r == Decode(buf, vtr)
         to == IF r.thrown # "none" THEN "propagate" ELSE Control("decoded", r.ret, vtr)
     IN
       /\ num_values' = n /\ null_count' = nc
       /\ valid_bits' = bits /\ valid_bits_offset' = off
       /\ values_to_read' = vtr
       /\ buffer' = r.buffer
       /\ dense' = r.buffer
       /\ num_values_' = r.num_values_
       /\ data_' = r.data_
       /\ decode_calls' = <<[max_values |-> vtr, thrown |-> r.thrown, ret |-> r.ret]>>
       /\ values_read' = r.ret
       /\ values_to_move' = r.ret
       /\ i' = LoopStart(n)
       /\ pc' = IF to = "loop" THEN "loop" ELSE "done"
       /\ result' = [op |-> "DecodeSpaced",
                     status |-> CASE to = "propagate" -> r.thrown
                                  [] to = "throw" -> "mismatch"
                                  [] to = "loop" -> "running",
                     ret |-> 0, arg |-> n]
  /\ pre_buffer' = buf
  /\ pre_num_values' = num_values_
  /\ moves' = <<>>
  /\ UNCHANGED <<overrides, encoding_, loaded>>

\* ---- one iteration of the for loop on a slot whose bit is set -----------
SpacedMove ==
  /\ pc = "loop"
  /\ i >= 0
  /\ IsValid(valid_bits, valid_bits_offset, i)
  /\ LET src == SourceIndex(values_to_move) IN
       /\ buffer' = [buffer EXCEPT ![i] = ReadSlot(buffer, src)]
       /\ moves' = Append(moves, <<src, i>>)
  /\ values_to_move' = values_to_move - 1
  /\ i' = i - 1
  /\ UNCHANGED <<decoder, pc, num_values, null_count, valid_bits, valid_bits_offset,
                 values_to_read, values_read, result, loaded, pre_buffer,
                 pre_num_values, dense, decode_calls>>

\* ---- the read of buffer[--values_to_move] is out of bounds and faults ----
SpacedFault ==
  /\ pc = "loop"
  /\ i >= 0
  /\ IsValid(valid_bits, valid_bits_offset, i)
  /\ SourceIndex(values_to_move) \notin DOMAIN buffer
  /\ pc' = "crashed"
  /\ result' = [result EXCEPT !.status = "fault"]
  /\ moves' = Append(moves, <<SourceIndex(values_to_move), i>>)
  /\ values_to_move' = values_to_move - 1
  /\ UNCHANGED <<decoder, buffer, num_values, null_count, valid_bits, valid_bits_offset,
                 values_to_read, values_read, i, loaded, pre_buffer,
                 pre_num_values, dense, decode_calls>>

\* ---- one iteration of the for loop on a slot whose bit is clear ---------
SpacedSkip ==
  /\ pc = "loop"
  /\ i >= 0
  /\ ~IsValid(valid_bits, valid_bits_offset, i)
  /\ i' = i - 1
  /\ UNCHANGED <<decoder, pc, buffer, num_values, null_count, valid_bits,
                 valid_bits_offset, values_to_read, values_read, values_to_move,
                 result, loaded, pre_buffer, pre_num_values, dense, decode_calls, moves>>

\* ---- the loop has ended: return num_values ------------------------------
SpacedReturn ==
  /\ pc = "loop"
  /\ i < 0
  /\ pc' = "done"
  /\ result' = IF Control("scanned", values_read, values_to_read) = "throw"
               THEN [result EXCEPT !.status = "mismatch"]
               ELSE [result EXCEPT !.status = "ok", !.ret = num_values]
  /\ UNCHANGED <<decoder, buffer, frame, loaded, pre_buffer, pre_num_values,
                 dense, decode_calls, moves>>

\* ---- the caller has looked at the outcome and drops the call's buffer ---
CallerResumes ==
  /\ pc = "done"
  /\ pc' = "idle"
  /\ buffer' = EmptyBuffer /\ pre_buffer' = EmptyBuffer /\ dense' = EmptyBuffer
  /\ decode_calls' = <<>> /\ moves' = <<>>
  /\ pre_num_values' = num_values_
  /\ result' = [op |-> "none", status |-> "ok", ret |-> 0, arg |-> 0]
  /\ ResetFrame
  /\ UNCHANGED <<decoder, loaded>>

Next ==
  \/ \E count \in 0..MaxPage : SetData(count, Page(count))
  \/ \E n \in 0..MaxSlots : DecodeCall(Buffer(n), n)
  \/ \E n \in 0..MaxSlots : \E nc \in 0..n :
       \E off \in 0..MaxOffset : \E bits \in Bitmaps(n, off) :
         DecodeSpaced(Buffer(n), n, nc, bits, off)
  \/ SpacedMove
  \/ SpacedFault
  \/ SpacedSkip
  \/ SpacedReturn
  \/ CallerResumes

Spec == Init /\ [][Next]_vars

\* ==== properties ==========================================================
\* vocabulary of the properties, written with the call's own arguments
InSpaced == result.op = "DecodeSpaced" /\ pc \in {"loop", "done", "crashed"}
SpacedDone == result.op = "DecodeSpaced" /\ pc = "done"
SpacedOk == SpacedDone /\ result.status = "ok"
SpacedMismatch == SpacedDone /\ result.status = "mismatch"
NonNullCount == num_values - null_count
Slots == 0..(num_values - 1)
SetSlots == {s \in Slots : GetBit(valid_bits, valid_bits_offset + s)}
NullSlots == Slots \ SetSlots
Rank(s) == Cardinality({t \in SetSlots : t < s})
BitsAgree == Cardinality(SetSlots) = NonNullCount
Src(m) == m[1]
Dst(m) == m[2]

\* C1: after a successful DecodeSpaced whose bitmap has exactly
\* num_values - null_count set bits, the slot of the j-th set bit holds the
\* j-th value the dense Decode wrote.
C1_DenseOrderPreserved ==
  (SpacedOk /\ BitsAgree) => \A s \in SetSlots : buffer[s] = dense[Rank(s)]

C1_Witness ==
  /\ SpacedOk /\ BitsAgree
  /\ num_values = 3 /\ SetSlots = {0, 2}
  /\ dense[0] # dense[1]
  /\ buffer[0] = dense[0] /\ buffer[2] = dense[1]

\* C2 as stated: after a successful DecodeSpaced every null slot holds what
\* the caller had there before the call.
C2_NullSlotsUntouched ==
  SpacedOk => \A s \in NullSlots : buffer[s] = pre_buffer[s]

\* C2 as amended: after a successful DecodeSpaced a null slot at index
\* >= num_values - null_count holds the caller's content, and a null slot at
\* a lower index holds the value the dense Decode wrote there.
C2_NullSlotsKeepDenseOrCaller ==
  SpacedOk => \A s \in NullSlots :
                buffer[s] = IF s >= NonNullCount THEN pre_buffer[s] ELSE dense[s]

C2_Witness ==
  /\ SpacedOk /\ BitsAgree
  /\ num_values = 3 /\ NullSlots = {0, 2}
  /\ buffer[0] # pre_buffer[0] /\ buffer[0] = dense[0]
  /\ buffer[2] = pre_buffer[2]

\* C3 as stated: DecodeSpaced returns num_values if its Decode returned
\* exactly num_values - null_count values and fails with the count mismatch
\* in every other case.
C3_TwoOutcomes ==
  SpacedDone =>
    IF decode_calls[1].thrown = "none" /\ decode_calls[1].ret = NonNullCount
    THEN result.status = "ok" /\ result.ret = num_values
    ELSE result.status = "mismatch"

\* C3 as amended: an exception of the dense Decode propagates unchanged; a
\* Decode that returns another count than num_values - null_count makes
\* DecodeSpaced fail with the count mismatch; DecodeSpaced returns only when
\* Decode returned exactly num_values - null_count, and then it returns
\* num_values, never less.
C3_OutcomesOfDecodeSpaced ==
  SpacedDone =>
    /\ Len(decode_calls) = 1
    /\ CASE decode_calls[1].thrown # "none" ->
              result.status = decode_calls[1].thrown
         [] decode_calls[1].thrown = "none" /\ decode_calls[1].ret = NonNullCount ->
              result.status = "ok" /\ result.ret = num_values
         [] OTHER -> result.status = "mismatch"

C3_Witness ==
  /\ SpacedMismatch
  /\ decode_calls[1].thrown = "none"
  /\ decode_calls[1].ret < NonNullCount

\* C4: when DecodeSpaced fails with the count mismatch after Decode returned
\* r values, the loop has not run and every slot at index >= r holds its
\* content from before the call.
C4_MismatchWritesOnlyDensePrefix ==
  SpacedMismatch =>
    /\ moves = <<>>
    /\ \A s \in Slots : s >= decode_calls[1].ret => buffer[s] = pre_buffer[s]
    /\ buffer = dense

C4_Witness ==
  /\ SpacedMismatch
  /\ num_values = 3 /\ null_count = 0 /\ decode_calls[1].ret = 1
  /\ SetSlots = Slots
  /\ buffer[0] # pre_buffer[0]

\* C5: a freshly constructed decoder has values_left() = 0, and right after
\* SetData(count, ..) values_left() = count whatever was left before.
C5_SetDataResetsValuesLeft ==
  /\ result.op = "ctor" => values_left = 0
  /\ result.op = "SetData" => values_left = result.arg

C5_Witness ==
  /\ result.op = "SetData"
  /\ pre_num_values = 1 /\ result.arg = 2 /\ values_left = 2

\* C6: on a decoder that implements Decode, Decode(max_values) returns
\* min(max_values, values_left()) and lowers values_left() by what it
\* returned; values_left() stays within 0..N and no call but SetData raises it.
C6_DecodeCountsDown ==
  overrides =>
    /\ values_left >= 0 /\ values_left <= loaded
    /\ (pc = "done" /\ result.op = "Decode") =>
         /\ result.ret = Min(result.arg, pre_num_values)
         /\ values_left = pre_num_values - result.ret
    /\ result.op \in {"Decode", "DecodeSpaced"} => values_left <= pre_num_values

C6_Witness ==
  /\ overrides /\ pc = "done" /\ result.op = "Decode"
  /\ loaded > 0 /\ pre_num_values = 0
  /\ result.arg = 1 /\ result.ret = 0

\* C7: on a decoder that does not override Decode, Decode and DecodeSpaced
\* both fail with the unsupported error and leave the buffer and
\* values_left() as they were.
C7_BaseDecoderUnsupported ==
  ~overrides =>
    /\ pc # "loop"
    /\ (pc = "done" /\ result.op \in {"Decode", "DecodeSpaced"}) =>
         /\ result.status = "unsupported"
         /\ buffer = pre_buffer
         /\ values_left = pre_num_values

C7_Witness ==
  /\ ~overrides /\ SpacedDone
  /\ result.status = "unsupported"
  /\ num_values = 2 /\ null_count = 0 /\ values_left = 0

\* C8: DecodeSpaced calls Decode once, for num_values - null_count values;
\* a successful DecodeSpaced lowers values_left() by num_values - null_count;
\* the loop changes no decoder field and encoding() never changes.
C8_StateAfterSpaced ==
  /\ InSpaced => /\ Len(decode_calls) = 1
                 /\ decode_calls[1].max_values = NonNullCount
  /\ SpacedOk => values_left = pre_num_values - NonNullCount

C8_SpacedTouchesDecoderOnlyThroughDecode ==
  /\ []C8_StateAfterSpaced
  /\ [][/\ encoding' = encoding
        /\ pc = "loop" => UNCHANGED decoder]_vars

C8_Witness ==
  /\ SpacedOk
  /\ null_count > 0 /\ NonNullCount > 0
  /\ values_left = pre_num_values - NonNullCount

\* C9: with exactly num_values - null_count set bits, every loop assignment
\* has 0 <= source <= destination, sources strictly decrease and end at 0, no
\* slot is read after another assignment wrote it, and with no nulls every
\* assignment is a self-assignment that leaves the dense output as it is.
C9_BackwardScanIsAliasSafe ==
  (InSpaced /\ result.status \in {"running", "ok"} /\ BitsAgree) =>
    /\ \A a \in 1..Len(moves) : 0 <= Src(moves[a]) /\ Src(moves[a]) <= Dst(moves[a])
    /\ \A a, b \in 1..Len(moves) :
         a < b => /\ Src(moves[b]) < Src(moves[a])
                  /\ Src(moves[b]) # Dst(moves[a])
    /\ SpacedOk => values_to_move = 0
    /\ (SpacedOk /\ null_count = 0) =>
         /\ \A a \in 1..Len(moves) : Src(moves[a]) = Dst(moves[a])
         /\ buffer = dense

C9_Witness ==
  /\ SpacedOk /\ BitsAgree
  /\ num_values = 3
  /\ moves = <<(<<1, 2>>), (<<0, 1>>)>>
  /\ values_to_move = 0

\* C10 as stated: whatever the bitmap and null_count in 0..num_values, every
\* index the loop reads or writes lies in 0..num_values-1 and values_to_move
\* never becomes negative.
C10_LoopIndicesInRange ==
  InSpaced =>
    /\ values_to_move >= 0
    /\ \A a \in 1..Len(moves) : Src(moves[a]) \in Slots /\ Dst(moves[a]) \in Slots
====
